---- MODULE Spec2Model ----
(***************************************************************************)
(* A model of the quiz application: the App component (session state       *)
(* machine), the QuestionScreen component (local answer / result / mute    *)
(* state and its reset effect) and the evaluation client evaluateAnswer.   *)
(*                                                                         *)
(* Nullable values (string | null, EvaluationResult | null) are sequences  *)
(* of length at most one: <<>> is null, <<v>> is the value v.  Texts are   *)
(* sequences of one-character strings.  The raw score of a service         *)
(* response is counted in halves so that Math.round has something to do.   *)
(***************************************************************************)
EXTENDS Integers, Sequences, FiniteSets

VARIABLES
    appState,              \* App: 'setup' | 'quiz' | 'summary'
    selectedSubject,       \* App
    selectedChapter,       \* App
    selectedDifficulty,    \* App: Difficulty | null
    questions,             \* App: the sampled question list
    currentQuestionIndex,  \* App: 0-based index into questions
    totalScore,            \* App
    sessionAnswers,        \* App: the answer history
    isLoading,             \* App
    error,                 \* App: string | null
    streak,                \* App
    localStorage,          \* the 'streak' entry of window.localStorage: string | null
    studentAnswer,         \* QuestionScreen
    evaluationResult,      \* QuestionScreen: EvaluationResult | null
    isMuted,               \* QuestionScreen
    showCorrectAnswer,     \* QuestionScreen
    pending,               \* the suspended handleAnswerSubmit calls awaiting evaluateAnswer
    evalCall,              \* the last direct call of evaluateAnswer (specification SpecEval only)
    advances               \* history: the Next presses of the session since its StartQuiz

appVars == <<appState, selectedSubject, selectedChapter, selectedDifficulty, questions,
             currentQuestionIndex, totalScore, sessionAnswers, isLoading, error, streak,
             localStorage>>
screenVars == <<studentAnswer, evaluationResult, isMuted, showCorrectAnswer>>
vars == <<appVars, screenVars, pending, evalCall, advances>>

---------------------------------------------------------------------------
(* Bounds of the model *)

\* SubmitAnswer is not started once the history holds this many entries.
MaxAnswers == 2
\* SubmitAnswer is not started once the streak has reached this value.
MaxStreak == 2
\* The streak values the persisted entry may hold when the application starts.
MaxSavedStreak == 1

---------------------------------------------------------------------------
(* Nullable values *)

Null == <<>>
Some(v) == <<v>>
IsNull(o) == o = <<>>
Get(o) == o[1]

---------------------------------------------------------------------------
(* Texts: String.prototype.trim, Number.prototype.toString, parseInt *)

IsBlank(ch) == ch = " "

RECURSIVE trimStart(_)
trimStart(t) == IF t # <<>> /\ IsBlank(Head(t)) THEN trimStart(Tail(t)) ELSE t

RECURSIVE trimEnd(_)
trimEnd(t) ==
    IF t # <<>> /\ IsBlank(t[Len(t)]) THEN trimEnd(SubSeq(t, 1, Len(t) - 1)) ELSE t

trim(t) == trimEnd(trimStart(t))

DigitChars == <<"0", "1", "2", "3", "4", "5", "6", "7", "8", "9">>

RECURSIVE toString(_)
toString(n) ==
    IF n < 10 THEN <<DigitChars[n + 1]>>
    ELSE toString(n \div 10) \o <<DigitChars[(n % 10) + 1]>>

DigitValue(ch) == CHOOSE d \in 0..9 : DigitChars[d + 1] = ch

RECURSIVE parseInt(_)
parseInt(t) ==
    IF Len(t) = 1 THEN DigitValue(t[1])
    ELSE 10 * parseInt(SubSeq(t, 1, Len(t) - 1)) + DigitValue(t[Len(t)])

---------------------------------------------------------------------------
(* The question bank and the session size (data/questions, constants) *)

Question(id, maxMarks) == [id |-> id, maxMarks |-> maxMarks]

Difficulty == {"Basic", "Medium", "Difficult"}

QUESTIONS_PER_SESSION == 2

SUBJECTS ==
    [Biology |->
        [name |-> "Biology",
         chapters |-> <<
            [name |-> "Digestion",
             questions |-> [Basic |-> <<Question("q1", 2), Question("q2", 1), Question("q3", 2)>>,
                            Medium |-> <<Question("q4", 5)>>,
                            Difficult |-> <<>>]]
         >>]]

\* The subject and chapter names a caller may hand to handleStartQuiz.
SubjectNames == {"Biology", "Physics"}
ChapterNames == {"Digestion", "Optics"}

---------------------------------------------------------------------------
(* Array helpers *)

Range(s) == {s[i] : i \in 1..Len(s)}

\* Array.prototype.slice(0, n)
slice(array, n) == SubSeq(array, 1, IF n < Len(array) THEN n ELSE Len(array))

\* Array.prototype.find over the chapters of a subject: the first match, or null.
find(chapters, chapter) ==
    LET hits == {i \in 1..Len(chapters) : chapters[i].name = chapter}
    IN  IF hits = {} THEN Null
        ELSE Some(chapters[CHOOSE i \in hits : \A j \in hits : i <= j])

\* Mutation of shuffleArray: positions drawn independently, so elements may repeat.
shuffleArrayWithRepeats(array) == [1..Len(array) -> Range(array)]

\* [...array].sort(() => Math.random() - 0.5): the comparator is inconsistent, so
\* the order is whatever the engine's sort makes of it; the elements are the same.
shuffleArray(array) ==
    {p \in [1..Len(array) -> Range(array)] :
        \A i \in 1..Len(array) : \E j \in 1..Len(array) : p[j] = array[i]}

---------------------------------------------------------------------------
(* The evaluation client *)

\* A JSON value as JSON.parse delivers it, with its typeof tag: n is a number in
\* halves, s a string, b a boolean, a the elements of an array.
JNumber(halves) == [t |-> "number", n |-> halves, s |-> "", b |-> FALSE, a |-> <<>>]
JString(str) == [t |-> "string", n |-> 0, s |-> str, b |-> FALSE, a |-> <<>>]
JBoolean(bool) == [t |-> "boolean", n |-> 0, s |-> "", b |-> bool, a |-> <<>>]
JArray(elems) == [t |-> "array", n |-> 0, s |-> "", b |-> FALSE, a |-> elems]
JUndefined == [t |-> "undefined", n |-> 0, s |-> "", b |-> FALSE, a |-> <<>>]

\* What comes back from ai.models.generateContent: the call rejects, or it
\* resolves with a text that JSON.parse refuses, or with a parsed object.
Response(outcome, score, feedback, isCorrect, missingConcepts, terminologyCorrections, modelAnswerImprovement) ==
    [outcome |-> outcome, score |-> score, feedback |-> feedback, isCorrect |-> isCorrect,
     missingConcepts |-> missingConcepts, terminologyCorrections |-> terminologyCorrections,
     modelAnswerImprovement |-> modelAnswerImprovement]

EvaluationResult(score, feedback, isCorrect, missingConcepts, terminologyCorrections, modelAnswerImprovement) ==
    [score |-> score, feedback |-> feedback, isCorrect |-> isCorrect,
     missingConcepts |-> missingConcepts, terminologyCorrections |-> terminologyCorrections,
     modelAnswerImprovement |-> modelAnswerImprovement]

\* Math.round of a number given in halves: floor(x + 0.5).
MathRound(halves) == (halves + 1) \div 2
MathMin(a, b) == IF a < b THEN a ELSE b
MathMax(a, b) == IF a > b THEN a ELSE b

\* The "Basic validation" of the parsed response.
ValidStructure(result) ==
    /\ result.score.t = "number"
    /\ result.feedback.t = "string"
    /\ result.isCorrect.t = "boolean"
    /\ result.missingConcepts.t = "array"
    /\ result.terminologyCorrections.t = "array"
    /\ result.modelAnswerImprovement.t = "string"

\* Mutation of ClampScore: the upper limit is left out.
ClampScoreNoUpperLimit(question, halves) == MathMax(0, MathRound(halves))

\* The score evaluateAnswer puts into its result.
ClampScore(question, halves) == MathMax(0, MathMin(question.maxMarks, MathRound(halves)))

\* score >= 75% of maxMarks
MeetsThreshold(score, maxMarks) == 4 * score >= 3 * maxMarks

Threw == [threw |-> TRUE,
          value |-> EvaluationResult(0, "", FALSE, <<>>, <<>>, "")]
Returned(v) == [threw |-> FALSE, value |-> v]

\* Mutation of evaluateAnswer: isCorrect is recomputed from the clamped score.
evaluateAnswerRecomputed(question, response) ==
    IF response.outcome # "json" \/ ~ValidStructure(response) THEN Threw
    ELSE Returned(EvaluationResult(
            ClampScore(question, response.score.n),
            response.feedback.s,
            MeetsThreshold(ClampScore(question, response.score.n), question.maxMarks),
            response.missingConcepts.a,
            response.terminologyCorrections.a,
            response.modelAnswerImprovement.s))

\* evaluateAnswer(question, studentAnswer) when the service answers with response:
\* the returned EvaluationResult, or the throw of "Failed to get evaluation from AI
\* service." (any error inside the try block ends there).
evaluateAnswer(question, response) ==
    IF response.outcome # "json" \/ ~ValidStructure(response) THEN Threw
    ELSE Returned(EvaluationResult(
            ClampScore(question, response.score.n),
            response.feedback.s,
            response.isCorrect.b,
            response.missingConcepts.a,
            response.terminologyCorrections.a,
            response.modelAnswerImprovement.s))

---------------------------------------------------------------------------
(* Inputs of the session model *)

\* What the user types into the textarea: nothing, a blank, a word.
AnswerTexts == {<<>>, <<" ">>, <<"a">>}

\* Raw scores (in halves) the service reports in the session model:
\* -0.5, 0, 1.5, 7.
SessionRawScores == {-1, 0, 3, 14}

ValidResponse(halves, bool) ==
    Response("json", JNumber(halves), JString("feedback"), JBoolean(bool),
             JArray(<<>>), JArray(<<>>), JString(""))

\* The service's answers in the session model: structurally valid ones, a
\* rejected request, an unparseable text and an object with a wrong field type.
SessionResponses ==
    {ValidResponse(h, b) : h \in SessionRawScores, b \in BOOLEAN}
    \cup {Response("rejected", JUndefined, JUndefined, JUndefined, JUndefined,
                   JUndefined, JUndefined),
          Response("unparseable", JUndefined, JUndefined, JUndefined, JUndefined,
                   JUndefined, JUndefined),
          Response("json", JNumber(4), JString("feedback"), JString("true"),
                   JArray(<<>>), JArray(<<>>), JString(""))}

\* The persisted entry before the application starts: absent, or a streak that
\* an earlier run wrote.
SavedStreaks == {Null} \cup {Some(toString(n)) : n \in 0..MaxSavedStreak}

---------------------------------------------------------------------------
(* App *)

ChapterNotFound == "Chapter not found"
NoQuestions == "No questions available for this selection."
EvaluationError == "Sorry, there was an error evaluating your answer. Please try again."

\* useState initializer of streak
InitialStreak(savedStreak) ==
    IF ~IsNull(savedStreak) /\ Get(savedStreak) # <<>> THEN parseInt(Get(savedStreak)) ELSE 0

\* Mutation of PersistStreak: the effect does not write.
PersistStreakDropped(newStreak) == localStorage' = localStorage

\* useEffect(() => localStorage.setItem('streak', streak.toString()), [streak]):
\* runs after a render in which streak changed.
PersistStreak(newStreak) ==
    localStorage' = IF newStreak # streak THEN Some(toString(newStreak)) ELSE localStorage

\* QuestionScreen's useState initial values; also the values the model gives the
\* component's state while it is not mounted.
ScreenInitial ==
    /\ studentAnswer' = <<>>
    /\ evaluationResult' = Null
    /\ isMuted' = FALSE
    /\ showCorrectAnswer' = FALSE

\* useEffect(..., [question, speak]) of QuestionScreen
QuestionResetEffect ==
    /\ studentAnswer' = <<>>
    /\ evaluationResult' = Null
    /\ showCorrectAnswer' = FALSE

Init ==
    /\ appState = "setup"
    /\ selectedSubject = ""
    /\ selectedChapter = ""
    /\ selectedDifficulty = Null
    /\ questions = <<>>
    /\ currentQuestionIndex = 0
    /\ totalScore = 0
    /\ sessionAnswers = <<>>
    /\ isLoading = FALSE
    /\ error = Null
    /\ \E saved \in SavedStreaks :
          /\ streak = InitialStreak(saved)
          /\ localStorage = Some(toString(InitialStreak(saved)))
    /\ studentAnswer = <<>>
    /\ evaluationResult = Null
    /\ isMuted = FALSE
    /\ showCorrectAnswer = FALSE
    /\ pending = <<>>
    /\ evalCall = Null
    /\ advances = 0

\* Mutation of chapterDataOf: a chapter that is not found falls back to the
\* subject's first chapter.
chapterDataOfWithFallback(subject, chapter) ==
    IF subject \in DOMAIN SUBJECTS
    THEN IF IsNull(find(SUBJECTS[subject].chapters, chapter))
         THEN Some(SUBJECTS[subject].chapters[1])
         ELSE find(SUBJECTS[subject].chapters, chapter)
    ELSE Null

\* SUBJECTS[subject]?.chapters.find(c => c.name === chapter): null when it misses
chapterDataOf(subject, chapter) ==
    IF subject \in DOMAIN SUBJECTS THEN find(SUBJECTS[subject].chapters, chapter) ELSE Null

\* Mutation of NoQuestionsAvailable: the empty pool is not rejected.
NoQuestionsAvailableUnchecked(questionPool) == FALSE

\* if (!questionPool || questionPool.length === 0) throw ...
NoQuestionsAvailable(questionPool) == Len(questionPool) = 0

\* Mutation of addScore: the result's score is not added.
addScoreDropped(prev, result) == prev

\* setTotalScore(prev => prev + result.score)
addScore(prev, result) == prev + result.score

\* Mutation of nextStreak: a result that is not correct leaves the streak.
nextStreakNoReset(prev, result) == IF result.isCorrect THEN prev + 1 ELSE prev

\* if (result.isCorrect) setStreak(prev => prev + 1) else setStreak(0)
nextStreak(prev, result) == IF result.isCorrect THEN prev + 1 ELSE 0

\* Mutation of errorResult: the synthetic result counts as correct.
errorResultCorrect == EvaluationResult(0, "Error during evaluation.", TRUE, <<>>, <<>>, "")
errorResultWithMarks == EvaluationResult(1, "Error during evaluation.", FALSE, <<>>, <<>>, "")

\* The synthetic result of the catch block of handleAnswerSubmit
errorResult == EvaluationResult(0, "Error during evaluation.", FALSE, <<>>, <<>>, "")

sessionVars == <<selectedSubject, selectedChapter, selectedDifficulty, questions,
                 currentQuestionIndex, totalScore, sessionAnswers>>

\* Mutation of handleStartQuiz: setTotalScore(0) is left out.
handleStartQuizKeepsScore(subject, chapter, difficulty) ==
    /\ appState = "setup"
    /\ IsNull(error)
    /\ LET chapterData == chapterDataOf(subject, chapter)
       IN  IF IsNull(chapterData)
           THEN /\ error' = Some(ChapterNotFound)
                /\ UNCHANGED <<appState, sessionVars, advances>>
           ELSE LET questionPool == Get(chapterData).questions[difficulty]
                IN  IF NoQuestionsAvailable(questionPool)
                    THEN /\ error' = Some(NoQuestions)
                         /\ UNCHANGED <<appState, sessionVars, advances>>
                    ELSE \E shuffled \in shuffleArray(questionPool) :
                            /\ questions' = slice(shuffled, QUESTIONS_PER_SESSION)
                            /\ selectedSubject' = subject
                            /\ selectedChapter' = chapter
                            /\ selectedDifficulty' = Some(difficulty)
                            /\ currentQuestionIndex' = 0
                            /\ totalScore' = totalScore
                            /\ sessionAnswers' = <<>>
                            /\ error' = Null
                            /\ appState' = "quiz"
                            /\ advances' = 0
    /\ ScreenInitial
    /\ UNCHANGED <<isLoading, streak, localStorage, pending, evalCall>>

\* SetupScreen is on screen (no error banner in its place) and both selects hold
\* a value: handleDifficultyClick calls onStartQuiz.
handleStartQuiz(subject, chapter, difficulty) ==
    /\ appState = "setup"
    /\ IsNull(error)
    /\ LET chapterData == chapterDataOf(subject, chapter)
       IN  IF IsNull(chapterData)
           THEN /\ error' = Some(ChapterNotFound)
                /\ UNCHANGED <<appState, sessionVars, advances>>
           ELSE LET questionPool == Get(chapterData).questions[difficulty]
                IN  IF NoQuestionsAvailable(questionPool)
                    THEN /\ error' = Some(NoQuestions)
                         /\ UNCHANGED <<appState, sessionVars, advances>>
                    ELSE \E shuffled \in shuffleArray(questionPool) :
                            /\ questions' = slice(shuffled, QUESTIONS_PER_SESSION)
                            /\ selectedSubject' = subject
                            /\ selectedChapter' = chapter
                            /\ selectedDifficulty' = Some(difficulty)
                            /\ currentQuestionIndex' = 0
                            /\ totalScore' = 0
                            /\ sessionAnswers' = <<>>
                            /\ error' = Null
                            /\ appState' = "quiz"
                            /\ advances' = 0
    /\ ScreenInitial
    /\ UNCHANGED <<isLoading, streak, localStorage, pending, evalCall>>

\* disabled={!studentAnswer.trim() || !!evaluationResult || isLoading} of the
\* Submit button
SubmitDisabled == trim(studentAnswer) = <<>> \/ ~IsNull(evaluationResult) \/ isLoading

\* Mutation of handleAnswerSubmit: the first question of the list is evaluated
\* in place of the current one.
handleAnswerSubmitFirstQuestion ==
    /\ appState = "quiz"
    /\ ~SubmitDisabled
    /\ ~(trim(studentAnswer) = <<>> \/ isLoading)
    /\ Len(sessionAnswers) < MaxAnswers
    /\ streak < MaxStreak
    /\ isLoading' = TRUE
    /\ error' = Null
    /\ pending' = Append(pending, [currentQuestion |-> questions[1],
                                   studentAnswer |-> studentAnswer])
    /\ UNCHANGED <<appState, sessionVars, streak, localStorage, screenVars, evalCall, advances>>

\* Mutation of handleAnswerSubmit: the last question of the list is evaluated
\* in place of the current one.
handleAnswerSubmitLastQuestion ==
    /\ appState = "quiz"
    /\ ~SubmitDisabled
    /\ ~(trim(studentAnswer) = <<>> \/ isLoading)
    /\ Len(sessionAnswers) < MaxAnswers
    /\ streak < MaxStreak
    /\ isLoading' = TRUE
    /\ error' = Null
    /\ pending' = Append(pending, [currentQuestion |-> questions[Len(questions)],
                                   studentAnswer |-> studentAnswer])
    /\ UNCHANGED <<appState, sessionVars, streak, localStorage, screenVars, evalCall, advances>>

\* Mutation of handleAnswerSubmit: setIsLoading(true) is left out.
handleAnswerSubmitNoLoading ==
    /\ appState = "quiz"
    /\ ~SubmitDisabled
    /\ ~(trim(studentAnswer) = <<>> \/ isLoading)
    /\ Len(sessionAnswers) + Len(pending) < MaxAnswers
    /\ streak < MaxStreak
    /\ error' = Null
    /\ pending' = Append(pending, [currentQuestion |-> questions[currentQuestionIndex + 1],
                                   studentAnswer |-> studentAnswer])
    /\ UNCHANGED <<appState, sessionVars, isLoading, streak, localStorage, screenVars, evalCall,
                   advances>>

\* The Submit button of QuestionScreen: QuestionScreen.handleAnswerSubmit up to
\* its await, which is App.handleAnswerSubmit up to its await of evaluateAnswer.
handleAnswerSubmit ==
    /\ appState = "quiz"
    /\ ~SubmitDisabled
    /\ ~(trim(studentAnswer) = <<>> \/ isLoading)
    /\ Len(sessionAnswers) < MaxAnswers
    /\ streak < MaxStreak
    /\ isLoading' = TRUE
    /\ error' = Null
    /\ pending' = Append(pending, [currentQuestion |-> questions[currentQuestionIndex + 1],
                                   studentAnswer |-> studentAnswer])
    /\ UNCHANGED <<appState, sessionVars, streak, localStorage, screenVars, evalCall, advances>>

\* Mutation of evaluateAnswerSettles: the finally block is left out.
evaluateAnswerSettlesKeepsLoading(response) ==
    /\ pending # <<>>
    /\ LET currentQuestion == Head(pending).currentQuestion
           answer == Head(pending).studentAnswer
           outcome == evaluateAnswer(currentQuestion, response)
           result == IF outcome.threw THEN errorResult ELSE outcome.value
           newStreak == IF outcome.threw THEN 0 ELSE nextStreak(streak, result)
       IN  /\ totalScore' = IF outcome.threw THEN totalScore ELSE addScore(totalScore, result)
           /\ streak' = newStreak
           /\ PersistStreak(newStreak)
           /\ error' = IF outcome.threw THEN Some(EvaluationError) ELSE error
           /\ sessionAnswers' = Append(sessionAnswers,
                                       [question |-> currentQuestion,
                                        studentAnswer |-> answer,
                                        result |-> result])
           /\ evaluationResult' = Some(result)
    /\ isLoading' = isLoading
    /\ pending' = Tail(pending)
    /\ UNCHANGED <<appState, selectedSubject, selectedChapter, selectedDifficulty, questions,
                   currentQuestionIndex, studentAnswer, isMuted, showCorrectAnswer, evalCall, advances>>

\* evaluateAnswer settles for the oldest outstanding call: App.handleAnswerSubmit
\* runs from its await to its end (try, catch, finally), then
\* QuestionScreen.handleAnswerSubmit stores the result.
evaluateAnswerSettles(response) ==
    /\ pending # <<>>
    /\ LET currentQuestion == Head(pending).currentQuestion
           answer == Head(pending).studentAnswer
           outcome == evaluateAnswer(currentQuestion, response)
           result == IF outcome.threw THEN errorResult ELSE outcome.value
           newStreak == IF outcome.threw THEN 0 ELSE nextStreak(streak, result)
       IN  /\ totalScore' = IF outcome.threw THEN totalScore ELSE addScore(totalScore, result)
           /\ streak' = newStreak
           /\ PersistStreak(newStreak)
           /\ error' = IF outcome.threw THEN Some(EvaluationError) ELSE error
           /\ sessionAnswers' = Append(sessionAnswers,
                                       [question |-> currentQuestion,
                                        studentAnswer |-> answer,
                                        result |-> result])
           /\ evaluationResult' = Some(result)
    /\ isLoading' = FALSE
    /\ pending' = Tail(pending)
    /\ UNCHANGED <<appState, selectedSubject, selectedChapter, selectedDifficulty, questions,
                   currentQuestionIndex, studentAnswer, isMuted, showCorrectAnswer, evalCall, advances>>

\* Mutation of MoreQuestionsRemain: the comparison is off by one.
MoreQuestionsRemainOffByOne == currentQuestionIndex < Len(questions)

\* if (currentQuestionIndex < questions.length - 1)
MoreQuestionsRemain == currentQuestionIndex < Len(questions) - 1

\* Mutation of skippedResult: the skipped question counts as correct.
skippedResultCorrect(currentQuestion) ==
    [question |-> currentQuestion,
     studentAnswer |-> <<>>,
     result |-> EvaluationResult(0, "You skipped this question.", TRUE, <<>>, <<>>, "")]

\* The entry handleNextQuestion records for a question that was not answered
skippedResult(currentQuestion) ==
    [question |-> currentQuestion,
     studentAnswer |-> <<>>,
     result |-> EvaluationResult(0, "You skipped this question.", FALSE, <<>>, <<>>, "")]

\* App.handleNextQuestion, followed by what the new render does to QuestionScreen:
\* another question runs its reset effect, the summary unmounts it.
handleNextQuestion(wasAnswered) ==
    /\ appState = "quiz"
    /\ IF ~wasAnswered
       THEN /\ streak' = 0
            /\ PersistStreak(0)
            /\ sessionAnswers' =
                   Append(sessionAnswers, skippedResult(questions[currentQuestionIndex + 1]))
       ELSE UNCHANGED <<streak, localStorage, sessionAnswers>>
    /\ IF MoreQuestionsRemain
       THEN /\ currentQuestionIndex' = currentQuestionIndex + 1
            /\ QuestionResetEffect
            /\ UNCHANGED <<appState, isMuted>>
       ELSE /\ appState' = "summary"
            /\ ScreenInitial
            /\ UNCHANGED currentQuestionIndex
    /\ advances' = advances + 1
    /\ UNCHANGED <<selectedSubject, selectedChapter, selectedDifficulty, questions, totalScore,
                   isLoading, error, pending, evalCall>>

\* Mutation of onNext: the button is also disabled while the error is set.
onNextDisabledOnError ==
    ~isLoading /\ IsNull(error) /\ handleNextQuestion(~IsNull(evaluationResult))

\* Mutation of onNext: the button is not disabled while an evaluation is awaited.
onNextWhileLoading == handleNextQuestion(~IsNull(evaluationResult))

\* The Next button: disabled={isLoading}, onClick={() => onNext(!!evaluationResult)}
onNext == ~isLoading /\ handleNextQuestion(~IsNull(evaluationResult))

\* Mutation of handleRestart: the handler also runs from the question screen.
handleRestartFromQuiz ==
    /\ appState \in {"quiz", "summary"}
    /\ ~isLoading
    /\ appState' = "setup"
    /\ selectedSubject' = ""
    /\ selectedChapter' = ""
    /\ selectedDifficulty' = Null
    /\ ScreenInitial
    /\ UNCHANGED <<questions, currentQuestionIndex, totalScore, sessionAnswers, isLoading,
                   error, streak, localStorage, pending, evalCall, advances>>

\* Mutation of handleRestart: the streak is reset with the selection.
handleRestartResetsStreak ==
    /\ appState = "summary"
    /\ appState' = "setup"
    /\ selectedSubject' = ""
    /\ selectedChapter' = ""
    /\ selectedDifficulty' = Null
    /\ streak' = 0
    /\ PersistStreak(0)
    /\ UNCHANGED <<questions, currentQuestionIndex, totalScore, sessionAnswers, isLoading,
                   error, screenVars, pending, evalCall, advances>>

\* The Restart button of SummaryScreen
handleRestart ==
    /\ appState = "summary"
    /\ appState' = "setup"
    /\ selectedSubject' = ""
    /\ selectedChapter' = ""
    /\ selectedDifficulty' = Null
    /\ UNCHANGED <<questions, currentQuestionIndex, totalScore, sessionAnswers, isLoading,
                   error, streak, localStorage, screenVars, pending, evalCall, advances>>

\* The Dismiss button of the error banner that replaces SetupScreen
dismissError ==
    /\ appState = "setup"
    /\ ~IsNull(error)
    /\ error' = Null
    /\ UNCHANGED <<appState, sessionVars, isLoading, streak, localStorage, screenVars,
                   pending, evalCall, advances>>

\* useMemo: questions.reduce((acc, q) => acc + q.maxMarks, 0)
RECURSIVE reduceMaxMarks(_)
reduceMaxMarks(qs) == IF qs = <<>> THEN 0 ELSE Head(qs).maxMarks + reduceMaxMarks(Tail(qs))

maxPossibleScore == reduceMaxMarks(questions)

---------------------------------------------------------------------------
(* SummaryScreen *)

\* The totals and maxima for which the percentage is also checked directly
MaxSummaryTotal == 10
MaxSummaryPossible == 7

\* Mutation of percentage: the quotient is truncated instead of rounded.
percentageTruncated(total, maxPossible) ==
    IF maxPossible > 0 THEN (100 * total) \div maxPossible ELSE 0

\* maxPossibleScore > 0 ? Math.round((totalScore / maxPossibleScore) * 100) : 0
\* Math.round(x) is floor(x + 0.5); the quotient is taken exactly, which is what
\* the double arithmetic gives while maxPossibleScore stays below 40.
percentage(total, maxPossible) ==
    IF maxPossible > 0 THEN (200 * total + maxPossible) \div (2 * maxPossible) ELSE 0

---------------------------------------------------------------------------
(* QuestionScreen *)

\* textarea onChange
setStudentAnswer(text) ==
    /\ appState = "quiz"
    /\ IsNull(evaluationResult)
    /\ ~isLoading
    /\ studentAnswer' = text
    /\ UNCHANGED <<appVars, evaluationResult, isMuted, showCorrectAnswer, pending, evalCall, advances>>

\* The mute switch: setIsMuted(!isMuted).  speak is a useCallback over [isMuted],
\* so the next render has a new speak and the [question, speak] effect runs.
toggleMute ==
    /\ appState = "quiz"
    /\ isMuted' = ~isMuted
    /\ QuestionResetEffect
    /\ UNCHANGED <<appVars, pending, evalCall, advances>>

handleShowCorrectAnswerToggle ==
    /\ appState = "quiz"
    /\ ~IsNull(evaluationResult)
    /\ showCorrectAnswer' = ~showCorrectAnswer
    /\ UNCHANGED <<appVars, studentAnswer, evaluationResult, isMuted, pending, evalCall, advances>>

---------------------------------------------------------------------------
(* The session specification *)

StartQuiz == \E subject \in SubjectNames, chapter \in ChapterNames, difficulty \in Difficulty :
                handleStartQuiz(subject, chapter, difficulty)
SubmitAnswer == handleAnswerSubmit
Settle == \E response \in SessionResponses : evaluateAnswerSettles(response)
Advance == onNext
Restart == handleRestart
Dismiss == dismissError
Type == \E text \in AnswerTexts : setStudentAnswer(text)
ToggleMute == toggleMute
ToggleModelAnswer == handleShowCorrectAnswerToggle

Next ==
    \/ StartQuiz
    \/ SubmitAnswer
    \/ Settle
    \/ Advance
    \/ Restart
    \/ Dismiss
    \/ Type
    \/ ToggleMute
    \/ ToggleModelAnswer

Spec == Init /\ [][Next]_vars

\* The session with every awaited evaluation settling and a user who keeps
\* pressing Next whenever the button is enabled.
SpecLive == Init /\ [][Next]_vars /\ WF_vars(Settle) /\ SF_vars(Advance)

---------------------------------------------------------------------------
(* The evaluation client on its own: evaluateAnswer applied to one question *)
(* and one service response at a time.                                      *)

\* Questions of 1..MaxEvalMarks marks
MaxEvalMarks == 5
\* Raw scores from -MaxRawBelow/2 up to maxMarks + MaxRawAbove/2, in halves
MaxRawBelow == 3
MaxRawAbove == 4

EvalQuestions == {Question("q", m) : m \in 1..MaxEvalMarks}

EvalArrays == {<<>>, <<JString("concept")>>, <<JNumber(2)>>}

EvalValidResponses(question) ==
    {Response("json", JNumber(h), JString("feedback"), JBoolean(b), JArray(m), JArray(<<>>),
              JString("")) :
        h \in (0 - MaxRawBelow)..(2 * question.maxMarks + MaxRawAbove),
        b \in BOOLEAN, m \in EvalArrays}

\* One field of a valid response replaced by a value of another type, or left out.
EvalInvalidResponses ==
    LET ok == ValidResponse(2, TRUE)
        wrong == {JUndefined, JString("1"), JNumber(2), JBoolean(TRUE), JArray(<<>>)}
    IN  ({[ok EXCEPT !.score = w] : w \in wrong}
         \cup {[ok EXCEPT !.feedback = w] : w \in wrong}
         \cup {[ok EXCEPT !.isCorrect = w] : w \in wrong}
         \cup {[ok EXCEPT !.missingConcepts = w] : w \in wrong}
         \cup {[ok EXCEPT !.terminologyCorrections = w] : w \in wrong}
         \cup {[ok EXCEPT !.modelAnswerImprovement = w] : w \in wrong}
         \cup {[ok EXCEPT !.outcome = o] : o \in {"rejected", "unparseable"}})
        \ {ok}

EvalResponses(question) == EvalValidResponses(question) \cup EvalInvalidResponses

callEvaluateAnswer(question, response) ==
    /\ evalCall' = Some([question |-> question, response |-> response,
                         outcome |-> evaluateAnswer(question, response)])
    /\ UNCHANGED <<appVars, screenVars, pending, advances>>

NextEval == \E question \in EvalQuestions : \E response \in EvalResponses(question) :
                callEvaluateAnswer(question, response)

SpecEval == Init /\ [][NextEval]_vars

---------------------------------------------------------------------------
(* Properties *)

Last(seq) == seq[Len(seq)]

RECURSIVE SumScores(_)
SumScores(answers) ==
    IF answers = <<>> THEN 0 ELSE Last(answers).result.score + SumScores(SubSeq(answers, 1, Len(answers) - 1))

\* The transition appends exactly one entry to the answer history.
AppendsOne == Len(sessionAnswers') = Len(sessionAnswers) + 1

\* C1: in every reachable state the cumulative score equals the sum of
\* result.score over the entries of the answer history.
C1_ScoreIsSumOfHistory == totalScore = SumScores(sessionAnswers)

\* C1 witness: after a restart, the history of the finished session holds a scored
\* answer and a skipped question, and the total is positive.
C1_Witness ==
    /\ appState = "setup"
    /\ totalScore > 0
    /\ \E i \in 1..Len(sessionAnswers) : sessionAnswers[i].result.score > 0
    /\ \E i \in 1..Len(sessionAnswers) : sessionAnswers[i].studentAnswer = <<>>

\* C2 (as claimed): the answer history never holds more entries than there are
\* sampled questions.
C2_HistoryWithinQuestions == Len(sessionAnswers) <= Len(questions)

\* C3 (as claimed): when Advance on the final question moves the session to
\* Summary, the history is exactly as long as the question list.
C3_SummaryHistoryComplete ==
    [][(appState = "quiz" /\ appState' = "summary")
          => Len(sessionAnswers') = Len(questions')]_vars

\* C4 (as claimed): no two entries of the answer history are for the same question.
C4_OneEntryPerQuestion ==
    \A i, j \in 1..Len(sessionAnswers) :
        i # j => sessionAnswers[i].question.id # sessionAnswers[j].question.id

\* C5: a SubmitAnswer that settles or an Advance that records an entry leaves the
\* streak at the previous streak plus 1 when the recorded result is correct, and
\* at 0 when it is not (wrong answer, failed evaluation, skipped question).
C5_StreakFollowsResult ==
    [][/\ \A response \in SessionResponses :
             evaluateAnswerSettles(response) =>
                 /\ AppendsOne
                 /\ streak' = IF Last(sessionAnswers').result.isCorrect THEN streak + 1 ELSE 0
                 /\ evaluateAnswer(Head(pending).currentQuestion, response).threw => streak' = 0
       /\ handleNextQuestion(FALSE) => AppendsOne /\ streak' = 0
      ]_vars

\* C5 witness: a wrong or failed answer reset the streak and the correct answer
\* after it made it 1.
C5_Witness ==
    /\ Len(sessionAnswers) = 2
    /\ ~sessionAnswers[1].result.isCorrect
    /\ sessionAnswers[2].result.isCorrect
    /\ streak = 1

\* C6: a successful StartQuiz leaves a question list drawn from the selected
\* pool, without a repeated identifier, of length min(pool size, session size).
C6_SampleFromPool ==
    [][\A subject \in SubjectNames, chapter \in ChapterNames, difficulty \in Difficulty :
          (handleStartQuiz(subject, chapter, difficulty) /\ appState' = "quiz") =>
              LET pool == Get(chapterDataOf(subject, chapter)).questions[difficulty]
              IN  /\ Range(questions') \subseteq Range(pool)
                  /\ \A i, j \in 1..Len(questions') :
                        i # j => questions'[i].id # questions'[j].id
                  /\ Len(questions') = MathMin(Len(pool), QUESTIONS_PER_SESSION)
      ]_vars

\* C6 witness: a session sampled from a pool larger than the session size.
C6_Witness ==
    /\ appState = "quiz"
    /\ selectedDifficulty = Some("Basic")
    /\ Len(questions) = QUESTIONS_PER_SESSION
    /\ Len(SUBJECTS[selectedSubject].chapters[1].questions["Basic"]) > QUESTIONS_PER_SESSION

\* C7: StartQuiz on a selection whose pool is empty sets an error message and
\* stays in Setup, and Quiz is never entered with an empty question list.
C7_EmptyPoolNeverStarts ==
    /\ [](appState = "quiz" => questions # <<>>)
    /\ [][\A subject \in SubjectNames, chapter \in ChapterNames, difficulty \in Difficulty :
            (/\ handleStartQuiz(subject, chapter, difficulty)
             /\ ~IsNull(chapterDataOf(subject, chapter))
             /\ Get(chapterDataOf(subject, chapter)).questions[difficulty] = <<>>)
            => (error' = Some(NoQuestions) /\ appState' = "setup")
         ]_vars

\* C7 witness: the empty-pool message is showing in Setup.
C7_Witness == appState = "setup" /\ error = Some(NoQuestions)

\* C8: for a structurally valid response the returned score lies in
\* 0..maxMarks; a reported value above maxMarks gives maxMarks, one below 0 gives 0.
C8_ScoreClamped ==
    (~IsNull(evalCall) /\ ValidStructure(Get(evalCall).response)
                       /\ Get(evalCall).response.outcome = "json") =>
        LET call == Get(evalCall)
            maxMarks == call.question.maxMarks
            reported == call.response.score.n
            score == call.outcome.value.score
        IN  /\ ~call.outcome.threw
            /\ score \in 0..maxMarks
            /\ reported > 2 * maxMarks => score = maxMarks
            /\ reported < 0 => score = 0

\* C8 witness: maxMarks = 5, the service reports 7, the result holds 5.
C8_Witness ==
    /\ ~IsNull(evalCall)
    /\ Get(evalCall).question.maxMarks = 5
    /\ Get(evalCall).response.score = JNumber(14)
    /\ ~Get(evalCall).outcome.threw
    /\ Get(evalCall).outcome.value.score = 5

\* C9: for a structurally valid response the recorded and displayed result
\* carries the service's isCorrect unchanged, whatever the clamped score, and
\* the streak follows that boolean.
C9_IsCorrectTrusted ==
    [][\A response \in SessionResponses :
          (/\ evaluateAnswerSettles(response)
           /\ response.outcome = "json"
           /\ ValidStructure(response)) =>
              /\ Last(sessionAnswers').result.isCorrect = response.isCorrect.b
              /\ Get(evaluationResult').isCorrect = response.isCorrect.b
              /\ streak' = IF response.isCorrect.b THEN streak + 1 ELSE 0
      ]_vars

\* C9 witness: a recorded result is correct with a score below the threshold,
\* and the streak counted it.
C9_Witness ==
    /\ sessionAnswers # <<>>
    /\ Last(sessionAnswers).result.isCorrect
    /\ ~MeetsThreshold(Last(sessionAnswers).result.score, Last(sessionAnswers).question.maxMarks)
    /\ streak >= 1

\* The entry's isCorrect says what the 75% threshold says of its score.
Consistent(entry) ==
    entry.result.isCorrect <=> MeetsThreshold(entry.result.score, entry.question.maxMarks)

\* C10 (as claimed): every recorded result has isCorrect = TRUE iff its score is
\* at least 75% of the question's maxMarks.
C10_IsCorrectIffThreshold ==
    \A i \in 1..Len(sessionAnswers) : Consistent(sessionAnswers[i])

\* C10 (amended): a result recorded by a failed evaluation or a skip has
\* isCorrect = TRUE iff its score is at least 75% of maxMarks (score 0, not
\* correct); a result recorded by a successful evaluation does so exactly when
\* the service's boolean agrees with the threshold on the clamped score.
C10_SyntheticResultsMeetThreshold ==
        [][/\ \A response \in SessionResponses :
                 evaluateAnswerSettles(response) =>
                     IF response.outcome = "json" /\ ValidStructure(response)
                     THEN Consistent(Last(sessionAnswers'))
                            <=> (response.isCorrect.b
                                   <=> MeetsThreshold(Last(sessionAnswers').result.score,
                                                      Head(pending).currentQuestion.maxMarks))
                     ELSE Consistent(Last(sessionAnswers'))
           /\ handleNextQuestion(FALSE) => Consistent(Last(sessionAnswers'))
          ]_vars

\* C10 witness: the history holds a failed evaluation, a skipped question and a
\* service result whose boolean disagrees with the threshold.
C10_Witness ==
    /\ \E i \in 1..Len(sessionAnswers) : sessionAnswers[i].result = errorResult
    /\ \E i \in 1..Len(sessionAnswers) : sessionAnswers[i].studentAnswer = <<>>
    /\ \E i \in 1..Len(sessionAnswers) :
          /\ sessionAnswers[i].result.feedback = "feedback"
          /\ sessionAnswers[i].result.isCorrect
                # MeetsThreshold(sessionAnswers[i].result.score,
                                 sessionAnswers[i].question.maxMarks)

\* The evaluation call behind a response fails: the request is rejected, the
\* text is not JSON, or the structure check throws.
EvaluationFails(response) == evaluateAnswer(Head(pending).currentQuestion, response).threw

\* C11: when the evaluation call fails, SubmitAnswer appends exactly one entry for
\* the attempted question with score 0 and isCorrect = FALSE, leaves totalScore
\* unchanged, resets the streak to 0, sets the error message and hands the
\* synthetic result to QuestionScreen.
C11_FailedEvaluationRecorded ==
    [][\A response \in SessionResponses :
          (evaluateAnswerSettles(response) /\ EvaluationFails(response)) =>
              /\ AppendsOne
              /\ sessionAnswers' = Append(sessionAnswers, Last(sessionAnswers'))
              /\ Last(sessionAnswers').question = Head(pending).currentQuestion
              /\ Last(sessionAnswers').studentAnswer = Head(pending).studentAnswer
              /\ Last(sessionAnswers').result.score = 0
              /\ ~Last(sessionAnswers').result.isCorrect
              /\ totalScore' = totalScore
              /\ streak' = 0
              /\ localStorage' = Some(toString(0))
              /\ error' = Some(EvaluationError)
              /\ evaluationResult' = Some(Last(sessionAnswers').result)
      ]_vars

\* C11 witness: a scored answer built a streak and a total, then the evaluation
\* of the next question failed.
C11_Witness ==
    /\ Len(sessionAnswers) = 2
    /\ sessionAnswers[1].result.isCorrect
    /\ sessionAnswers[1].result.score > 0
    /\ sessionAnswers[2].question # sessionAnswers[1].question
    /\ sessionAnswers[2].result = errorResult
    /\ evaluationResult = Some(errorResult)
    /\ totalScore = sessionAnswers[1].result.score
    /\ streak = 0
    /\ error = Some(EvaluationError)

\* evaluationSchema: an ARRAY whose items are STRING
ArrayOfText(value) ==
    value.t = "array" /\ \A i \in 1..Len(value.a) : value.a[i].t = "string"

\* evaluationSchema: the structure of EvaluationResult, field by field
ConformsToSchema(result) ==
    /\ result.score.t = "number"
    /\ result.feedback.t = "string"
    /\ result.isCorrect.t = "boolean"
    /\ ArrayOfText(result.missingConcepts)
    /\ ArrayOfText(result.terminologyCorrections)
    /\ result.modelAnswerImprovement.t = "string"

\* C12 (as claimed): evaluateAnswer throws, and returns no result, for every
\* response that is not a parsed object of the structure of EvaluationResult:
\* a field missing or of another type, or a list field that is not an array
\* whose elements are all text.
C12_StructuralDeviationFails ==
    (~IsNull(evalCall) /\ ~ConformsToSchema(Get(evalCall).response))
        => Get(evalCall).outcome.threw

\* A failed evaluation returns: loading is over, the application is in Quiz on
\* the question it was on.
FailedSettleLeavesQuiz ==
    [][\A response \in SessionResponses :
          (evaluateAnswerSettles(response) /\ EvaluationFails(response)) =>
              /\ ~isLoading'
              /\ appState' = "quiz"
              /\ questions' = questions
              /\ currentQuestionIndex' = currentQuestionIndex
              /\ questions'[currentQuestionIndex' + 1] = Head(pending).currentQuestion
      ]_vars

\* The state a failed evaluation leaves behind, until the next submission
AfterFailure == appState = "quiz" /\ ~isLoading /\ error = Some(EvaluationError)

\* C13: after a failed evaluation the session is not stuck: the failed call
\* leaves loading off and the application in Quiz on the same question with
\* Advance enabled, and when evaluations settle and the user keeps pressing
\* Next the session reaches Summary.
C13_FailureNeverSticks ==
    /\ FailedSettleLeavesQuiz
    /\ [](AfterFailure => ENABLED Advance)
    /\ (AfterFailure ~> appState = "summary")

\* C13 witness: the session reached Summary with a failed evaluation as the
\* last entry of its history.
C13_Witness ==
    /\ appState = "summary"
    /\ error = Some(EvaluationError)
    /\ sessionAnswers # <<>>
    /\ Last(sessionAnswers).result = errorResult

\* C14: at most one evaluation request is in flight at any time; while one is
\* outstanding the loading flag is set and no SubmitAnswer can start.
C14_OneRequestInFlight ==
    /\ Len(pending) <= 1
    /\ isLoading <=> pending # <<>>
    /\ pending # <<>> => ~ENABLED SubmitAnswer

\* C14 witness: a request is outstanding for the second question of a session
\* whose first question was answered, with an answer text in the box.
C14_Witness ==
    /\ Len(pending) = 1
    /\ currentQuestionIndex = 1
    /\ Len(sessionAnswers) = 1
    /\ trim(studentAnswer) # <<>>
    /\ IsNull(evaluationResult)

\* C15: while an evaluation request is outstanding the question list, the
\* index, the cumulative score, the streak and its persisted copy, the answer
\* history and the application state do not change and Advance cannot occur;
\* they change only in the step in which the request settles.
C15_NoChangeWhileOutstanding ==
    /\ [][(pending # <<>> /\ pending' # <<>>) =>
             UNCHANGED <<questions, currentQuestionIndex, totalScore, streak, localStorage,
                         sessionAnswers, appState>>]_vars
    /\ [][(pending # <<>> /\ pending' = <<>>) => \E response \in SessionResponses :
                                                    evaluateAnswerSettles(response)]_vars
    /\ [](pending # <<>> => ~ENABLED Advance)

\* C15 witness: a request is outstanding and the screen has changed under it
\* (the mute switch was used, which also emptied the answer box).
C15_Witness ==
    /\ pending # <<>>
    /\ isMuted
    /\ studentAnswer = <<>>
    /\ Len(sessionAnswers) = 1
    /\ totalScore > 0

\* C16: Advance with wasAnswered = FALSE appends exactly one synthetic entry for
\* the current question (empty student text, score 0, isCorrect = FALSE), sets
\* the streak to 0 and leaves totalScore unchanged; Advance with
\* wasAnswered = TRUE leaves the history, totalScore and the streak unchanged.
C16_SkipRecordsSyntheticEntry ==
    [][/\ handleNextQuestion(FALSE) =>
             /\ AppendsOne
             /\ sessionAnswers' = Append(sessionAnswers, Last(sessionAnswers'))
             /\ Last(sessionAnswers').question = questions[currentQuestionIndex + 1]
             /\ Last(sessionAnswers').studentAnswer = <<>>
             /\ Last(sessionAnswers').result.score = 0
             /\ ~Last(sessionAnswers').result.isCorrect
             /\ streak' = 0
             /\ localStorage' = Some(toString(0))
             /\ totalScore' = totalScore
       /\ handleNextQuestion(TRUE) =>
             UNCHANGED <<sessionAnswers, totalScore, streak, localStorage>>
      ]_vars

\* C16 witness: the first question was answered with marks and passed with
\* Next, the second was skipped, and the session is in Summary.
C16_Witness ==
    /\ appState = "summary"
    /\ Len(sessionAnswers) = 2
    /\ sessionAnswers[1].result.isCorrect
    /\ sessionAnswers[1].result.score > 0
    /\ sessionAnswers[2] = skippedResult(questions[2])
    /\ sessionAnswers[1].question = questions[1]
    /\ totalScore = sessionAnswers[1].result.score
    /\ streak = 0

\* C17: Advance adds exactly 1 to the index and stays in Quiz when the current
\* question is not the last, and otherwise moves to Summary with the index
\* unchanged; so in every Quiz state the index is within the question list and
\* equals the number of Advance events so far, and a session is in Summary
\* after exactly Len(questions) Advance events.
C17_AdvanceStepsIndex ==
    /\ [][\A wasAnswered \in BOOLEAN :
             handleNextQuestion(wasAnswered) =>
                 /\ questions' = questions
                 /\ IF currentQuestionIndex + 1 < Len(questions)
                    THEN currentQuestionIndex' = currentQuestionIndex + 1 /\ appState' = "quiz"
                    ELSE currentQuestionIndex' = currentQuestionIndex /\ appState' = "summary"
         ]_vars
    /\ [](appState = "quiz" => /\ 0 <= currentQuestionIndex
                               /\ currentQuestionIndex < Len(questions)
                               /\ advances = currentQuestionIndex)
    /\ [](appState = "summary" => advances = Len(questions))

\* C17 witness: a session of two questions in Summary after two Advance events,
\* the index on the last question.
C17_Witness ==
    /\ appState = "summary"
    /\ Len(questions) = 2
    /\ currentQuestionIndex = 1
    /\ advances = 2

\* C18: a successful StartQuiz leaves index 0, totalScore 0, an empty answer
\* history, no error and state Quiz, whatever the previous session left in
\* them, and does not change the streak or its persisted copy.
C18_StartQuizResetsSession ==
    [][\A subject \in SubjectNames, chapter \in ChapterNames, difficulty \in Difficulty :
          (handleStartQuiz(subject, chapter, difficulty) /\ appState' = "quiz") =>
              /\ currentQuestionIndex' = 0
              /\ totalScore' = 0
              /\ sessionAnswers' = <<>>
              /\ error' = Null
              /\ streak' = streak
              /\ localStorage' = localStorage
      ]_vars

\* C18 witness: a fresh session in Quiz whose streak can only come from answers
\* of an earlier session of this run.
C18_Witness ==
    /\ appState = "quiz"
    /\ currentQuestionIndex = 0
    /\ totalScore = 0
    /\ sessionAnswers = <<>>
    /\ IsNull(error)
    /\ streak > MaxSavedStreak

\* C19: Restart moves the application to Setup, clears the selected subject,
\* chapter and difficulty and leaves the streak and its persisted copy
\* unchanged; the persisted copy always equals the streak.
C19_RestartKeepsStreak ==
    /\ [][handleRestart =>
             /\ appState' = "setup"
             /\ selectedSubject' = ""
             /\ selectedChapter' = ""
             /\ selectedDifficulty' = Null
             /\ streak' = streak
             /\ localStorage' = localStorage
         ]_vars
    /\ [](localStorage = Some(toString(streak)))

\* C19 witness: back in Setup after a session, the selection cleared, with a
\* streak earned in this run and persisted.
C19_Witness ==
    /\ appState = "setup"
    /\ questions # <<>>
    /\ selectedSubject = ""
    /\ selectedChapter = ""
    /\ IsNull(selectedDifficulty)
    /\ streak > MaxSavedStreak
    /\ localStorage = Some(toString(streak))

\* The sum of maxMarks over the first n questions of a list
RECURSIVE SumMaxMarks(_, _)
SumMaxMarks(qs, n) == IF n = 0 THEN 0 ELSE SumMaxMarks(qs, n - 1) + qs[n].maxMarks

\* p is 100 * total / maxPossible rounded to the nearest integer, a half going
\* up; 0 when maxPossible is 0.
IsRoundedPercentage(p, total, maxPossible) ==
    IF maxPossible = 0
    THEN p = 0
    ELSE (2 * p - 1) * maxPossible <= 200 * total /\ 200 * total < (2 * p + 1) * maxPossible

C21_StateCycle ==
    /\ [][appState' # appState =>
             \/ appState = "setup" /\ appState' = "quiz" /\ StartQuiz
             \/ /\ appState = "quiz" /\ appState' = "summary" /\ Advance
                /\ currentQuestionIndex = Len(questions) - 1
             \/ appState = "summary" /\ appState' = "setup" /\ Restart
         ]_vars
    /\ [](ENABLED StartQuiz => appState = "setup")
    /\ [](ENABLED SubmitAnswer => appState = "quiz")
    /\ [](ENABLED Settle => appState = "quiz")
    /\ [](ENABLED Advance => appState = "quiz")
    /\ [](ENABLED Restart => appState = "summary")

\* C21 witness: Setup again after a session went through Quiz and Summary.
C21_Witness ==
    /\ appState = "setup"
    /\ questions # <<>>
    /\ advances = Len(questions)
    /\ IsNull(error)

\* The bank has the subject, and the subject has a chapter of that name.
InBank(subject, chapter) ==
    /\ subject \in DOMAIN SUBJECTS
    /\ \E i \in 1..Len(SUBJECTS[subject].chapters) : SUBJECTS[subject].chapters[i].name = chapter

C23_StreakPersistedOnChange ==
    /\ InitialStreak(Null) = 0
    /\ \A n \in 0..MaxSavedStreak : InitialStreak(Some(toString(n))) = n
    /\ [][/\ streak' # streak => localStorage' = Some(toString(streak'))
          /\ streak' = streak => localStorage' = localStorage
         ]_vars

\* C23 witness: two correct answers raised the streak to 2 and the entry
\* reads "2".
C23_Witness ==
    /\ Len(sessionAnswers) = 2
    /\ sessionAnswers[1].result.isCorrect
    /\ sessionAnswers[2].result.isCorrect
    /\ streak = 2
    /\ localStorage = Some(<<"2">>)

\* C24: SubmitAnswer, from its start to its success or failure, leaves the
\* index, the question list and appState unchanged, and the entry it appends is
\* for the question that was current when the submission started.
C24_SubmitKeepsPosition ==
    [][/\ handleAnswerSubmit =>
             /\ UNCHANGED <<currentQuestionIndex, questions, appState>>
             /\ Last(pending').currentQuestion = questions[currentQuestionIndex + 1]
       /\ \A response \in SessionResponses :
             evaluateAnswerSettles(response) =>
                 /\ UNCHANGED <<currentQuestionIndex, questions, appState>>
                 /\ sessionAnswers' = Append(sessionAnswers, Last(sessionAnswers'))
                 /\ Last(sessionAnswers').question = Head(pending).currentQuestion
                 /\ Last(sessionAnswers').question = questions[currentQuestionIndex + 1]
      ]_vars

\* C24 witness: a submission on the first question succeeded and one on the
\* second failed; each is recorded for its question and the index is still on
\* the second.
C24_Witness ==
    /\ appState = "quiz"
    /\ Len(questions) = 2
    /\ currentQuestionIndex = 1
    /\ Len(sessionAnswers) = 2
    /\ sessionAnswers[1].question = questions[1]
    /\ sessionAnswers[2].question = questions[2]
    /\ sessionAnswers[1].result.feedback = "feedback"
    /\ sessionAnswers[2].result = errorResult
    /\ ~isLoading

\* The answer history has an entry for the question on screen.
CurrentQuestionRecorded ==
    \E i \in 1..Len(sessionAnswers) :
        sessionAnswers[i].question = questions[currentQuestionIndex + 1]

\* C25 (as claimed): in Quiz the wasAnswered flag that the Next button passes
\* (evaluationResult is not null) is true exactly when the history has an entry
\* for the current question, and evaluationResult is cleared only by a step
\* that changes the question on screen.
C25_WasAnsweredMatchesHistory ==
    /\ [](appState = "quiz" => (~IsNull(evaluationResult) <=> CurrentQuestionRecorded))
    /\ [][(~IsNull(evaluationResult) /\ IsNull(evaluationResult')) =>
             (currentQuestionIndex' # currentQuestionIndex \/ appState' # appState)]_vars

\* The Submit button is disabled after the step.
SubmitDisabledNext ==
    trim(studentAnswer') = <<>> \/ ~IsNull(evaluationResult') \/ isLoading'

\* C26 (as claimed): the mute switch changes the mute flag only: the typed
\* text, the displayed result, whether Submit is disabled, totalScore, the
\* streak and the answer history are unchanged.
C26_MuteChangesOnlyMuteFlag ==
    [][toggleMute =>
          /\ isMuted' = ~isMuted
          /\ UNCHANGED <<studentAnswer, evaluationResult, totalScore, streak, sessionAnswers>>
          /\ SubmitDisabledNext <=> SubmitDisabled
      ]_vars

\* C27 (as claimed): in Summary totalScore is at most maxPossibleScore, so the
\* percentage lies in 0..100.
C27_TotalWithinMaximum ==
    appState = "summary" =>
        /\ totalScore <= maxPossibleScore
        /\ percentage(totalScore, maxPossibleScore) \in 0..100

\* C28 (as claimed): an error shown in Setup comes from a failed StartQuiz; the
\* message of a failed evaluation is never in place in Setup.
C28_SetupErrorFromStartQuiz ==
    (appState = "setup" /\ ~IsNull(error)) => error \in {Some(ChapterNotFound), Some(NoQuestions)}

\* C29: isLoading is true exactly while an evaluation request is outstanding:
\* the start of SubmitAnswer sets it, the settling of the request (success or
\* failure) clears it, nothing else changes it, and it is false in every Setup
\* and Summary state.
C29_LoadingWhileOutstanding ==
    /\ [](isLoading <=> Len(pending) > 0)
    /\ [](appState \in {"setup", "summary"} => ~isLoading)
    /\ [][/\ handleAnswerSubmit => (~isLoading /\ isLoading')
          /\ \A response \in SessionResponses :
                evaluateAnswerSettles(response) => (isLoading /\ ~isLoading')
          /\ isLoading' # isLoading =>
                (handleAnswerSubmit \/ \E response \in SessionResponses :
                                          evaluateAnswerSettles(response))
         ]_vars

\* C29 witness: in Summary with loading off, after one request that failed and
\* one that succeeded.
C29_Witness ==
    /\ appState = "summary"
    /\ ~isLoading
    /\ pending = <<>>
    /\ Len(sessionAnswers) = 2
    /\ sessionAnswers[1].result = errorResult
    /\ sessionAnswers[2].result.feedback = "feedback"

\* The position (from 0) of a question in the sampled list; the list has no
\* repeated question.
IndexOfQuestion(question) == (CHOOSE k \in 1..Len(questions) : questions[k] = question) - 1

\* C30: every history entry is for a question of the list at an index no
\* greater than the current index, and the entries are in non-decreasing order
\* of question index.
C30_HistoryFollowsQuestionOrder ==
    /\ \A i \in 1..Len(sessionAnswers) :
          /\ sessionAnswers[i].question \in Range(questions)
          /\ IndexOfQuestion(sessionAnswers[i].question) <= currentQuestionIndex
    /\ \A i, j \in 1..Len(sessionAnswers) :
          i < j => IndexOfQuestion(sessionAnswers[i].question)
                      <= IndexOfQuestion(sessionAnswers[j].question)

\* C30 witness: on the second question, with two entries for the first (an
\* evaluated answer, then a skip entry).
C30_Witness ==
    /\ appState = "quiz"
    /\ currentQuestionIndex = 1
    /\ Len(sessionAnswers) = 2
    /\ IndexOfQuestion(sessionAnswers[1].question) = 0
    /\ IndexOfQuestion(sessionAnswers[2].question) = 0

====
